---- MODULE Spec2Model ----
(***************************************************************************)
(* A model of savory-pie: the dispatcher and resource tree resolver of     *)
(* views.py, the resources of resources.py (Resource, APIResource,         *)
(* Related, QuerySetResource, ModelResource) and the field descriptors of  *)
(* fields.py.                                                              *)
(*                                                                         *)
(* Strings are sequences of one-character strings.  An optional value is a *)
(* sequence of length 0 (Python's None) or 1 (the value).                  *)
(***************************************************************************)
EXTENDS Integers, Sequences, FiniteSets, TLC

VARIABLES
    \* --- the registered application (fixed after startup) ---------------
    root_cls,              \* class of the root resource given to api_view
    item_parent_path,      \* ItemResource.parent_resource_path (class attribute)
    item_fields,           \* ItemResource.fields (class attribute)
    other_fields,          \* OtherResource.fields (class attribute)
    \* --- state that outlives a request --------------------------------
    resource_path,         \* static resource -> its resource_path attribute
    db,                    \* stored Item rows: pk -> value of the FK "other"
    next_pk,               \* the store's next auto-increment key
    \* --- what the last request did ------------------------------------
    request,               \* [method, path]
    base_uri,              \* ctx.base_uri of the request
    resolved,              \* outcome of ctx.resolve_resource_path(resource_path)
    lookups,               \* get_child_resource calls: <<resource, fragment>>
    uri_calls,             \* resolve_resource_uri calls: [uri, result, lookups]
    calls,                 \* verb handlers the dispatcher invoked: <<resource, verb>>
    persist,               \* persistence calls: <<"save" | "delete", class, pk>>
    created,               \* the resource a POST handler returned
    pc,                    \* "idle", or "responded" once the view has returned
    response,              \* the HttpResponse, or the exception that escaped
    \* --- Related-Fetch plans (resources.py, class Related) ------------
    plans,                 \* the Related objects of one family
    heap,                  \* the set objects the plans hold
    last_op,               \* the last call made on a plan
    final_qs,              \* the queryset the root's prepare returned
    \* --- one query preparation of a QuerySetResource ------------------
    qp,                    \* program counter and locals of prepare_queryset and its caller
    \* --- one target object and its relations (fields.py) -------------
    tgt,                   \* the stored target, its related rows, and its last put
    \* --- two requests in flight at once (views.py) -------------------
    cq                     \* request id -> position and locals of its view call

vars == <<root_cls, item_parent_path, item_fields, resource_path, db, next_pk,
          request, base_uri, resolved, lookups, uri_calls, calls, persist,
          created, pc, response, other_fields, plans, heap, last_op,
          final_qs, qp, tgt, cq>>

dispatchVars == <<root_cls, item_parent_path, item_fields, other_fields,
                  resource_path, db,
                  next_pk, request, base_uri, resolved, lookups, uri_calls,
                  calls, persist, created, pc, response>>
relatedVars == <<plans, heap, last_op, final_qs>>

(***************************************************************************)
(* Bounds                                                                  *)
(***************************************************************************)
MaxFrags == 2       \* path fragments in a request path
MaxPk == 2          \* keys the store hands out (one row exists at startup)

(***************************************************************************)
(* Python values                                                           *)
(***************************************************************************)
None == <<>>
Some(v) == <<v>>
IsNone(o) == o = <<>>
Val(o) == o[1]

\* F applied to the value of v, v evaluated once: a local variable assigned
\* once and then read
With(v, F(_)) == CHOOSE y \in {F(x) : x \in {v}} : TRUE

NoRes == "None"         \* Python's None where a resource is expected
NoExc == ""             \* no exception raised

Verbs == {"GET", "POST", "PUT", "DELETE"}
Methods == Verbs \cup {"PATCH"}

RECURSIVE Join(_, _)
\* sep.join(parts) for a sequence of strings
Join(sep, parts) ==
    IF parts = <<>> THEN <<>>
    ELSE IF Len(parts) = 1 THEN parts[1]
    ELSE parts[1] \o sep \o Join(sep, Tail(parts))

\* index of the first occurrence of character c in s, 0 when absent
Find(s, c) ==
    IF \E i \in 1..Len(s) : s[i] = c
    THEN CHOOSE i \in 1..Len(s) : s[i] = c /\ \A j \in 1..(i - 1) : s[j] # c
    ELSE 0

RECURSIVE Split(_, _)
\* s.split(c): always at least one element
Split(s, c) ==
    LET i == Find(s, c)
    IN  IF i = 0 THEN <<s>>
        ELSE <<SubSeq(s, 1, i - 1)>> \o Split(SubSeq(s, i + 1, Len(s)), c)

\* s.startswith(p)
StartsWith(s, p) == Len(p) <= Len(s) /\ SubSeq(s, 1, Len(p)) = p

Digits == <<"0", "1", "2", "3", "4", "5", "6", "7", "8", "9">>

RECURSIVE StrInt(_)
\* str(n) for a non-negative integer
StrInt(n) ==
    IF n < 10 THEN <<Digits[n + 1]>>
    ELSE StrInt(n \div 10) \o <<Digits[(n % 10) + 1]>>

(***************************************************************************)
(* The registered application.  R0 is the root resource given to api_view. *)
(* A "NodeResource" is an application Resource written to the calling      *)
(* convention of views.py (get_child_resource(path_fragment), delete()),   *)
(* as the resources of tests/views.py are.  R3 and R5 are ModelResource-s  *)
(* around stored models, R4 is a QuerySetResource over the Item rows.      *)
(*     R0 --a--> R1 --a--> R2        R1 --b--> R3 (ItemResource, Item 1)   *)
(*     R0 --q--> R4 (Items)          R1 --q--> R5 (OtherResource, Other 1) *)
(***************************************************************************)
Nodes == {"R0", "R1", "R2", "R3", "R4", "R5"}
RootNode == "R0"

Cls(n) ==
    CASE n = "R0" -> root_cls
      [] n \in {"R1", "R2"} -> "NodeResource"
      [] n = "R3" -> "ItemResource"
      [] n = "R4" -> "QuerySetResource"
      [] n = "R5" -> "OtherResource"

ModelClasses == {"ItemResource", "OtherResource"}

\* the model a static ModelResource was constructed around: <<model class, pk>>
ModelOf(n) == IF n = "R3" THEN <<"Item", 1>> ELSE <<"Other", 1>>

\* the mapping a resource keeps from path fragment to child resource
Children(n) ==
    CASE n = "R0" -> (<<"a">> :> "R1") @@ (<<"q">> :> "R4")
      [] n = "R1" -> (<<"a">> :> "R2") @@ (<<"b">> :> "R3") @@ (<<"q">> :> "R5")
      [] OTHER -> <<>>

\* dict.get(path_fragment, None)
ChildOf(n, f) == IF f \in DOMAIN Children(n) THEN Children(n)[f] ELSE NoRes

\* the verb handlers each class defines
Handlers(n) ==
    CASE n = "R0" -> IF root_cls = "NodeResource" THEN {"GET"} ELSE {}
      [] n = "R1" -> {"GET", "PUT"}
      [] n = "R2" -> {"GET", "PUT", "DELETE"}
      [] n \in {"R3", "R5"} -> {"GET", "PUT", "DELETE"}
      [] n = "R4" -> {"GET", "POST"}

\* Resource.allowed_methods: the verbs whose handler exists; R2 overrides it
\* with a static set (an access control)
allowed_methods(n) ==
    IF n = "R2" THEN {"GET"}
    ELSE {m \in {"GET", "POST", "PUT", "DELETE"} : m \in Handlers(n)}

\* class attributes of the two ModelResource subclasses
parent_resource_path(cls) ==
    IF cls = "ItemResource" THEN item_parent_path ELSE Some(<<"o">>)
fields(cls) ==
    CASE cls = "ItemResource" -> item_fields
      [] cls = "OtherResource" -> other_fields
      [] OTHER -> <<>>

\* ModelResource.key: str(getattr(self.model, attr)); a model is <<class, pk>>
\* and the pk of an unsaved model is None (0 here)
key(model) == IF model[2] = 0 THEN <<"N", "o", "n", "e">> ELSE StrInt(model[2])

\* ModelResource.resource_path (the property)
model_resource_path(cls, model, _resource_path) ==
    IF ~IsNone(_resource_path) THEN _resource_path
    ELSE IF ~IsNone(parent_resource_path(cls))
         THEN Some(Val(parent_resource_path(cls)) \o <<"/">> \o key(model))
         ELSE None

\* resource.resource_path of a static resource, rp being the stored attributes
ResourcePathOf(n, rp) ==
    IF Cls(n) \in ModelClasses
    THEN model_resource_path(Cls(n), ModelOf(n), rp[n])
    ELSE rp[n]

(***************************************************************************)
(* views.py: the resource tree resolver                                    *)
(***************************************************************************)
\* resource.get_child_resource(path_fragment) as _resolve_resource calls it:
\* with one argument.  The classes of resources.py define
\* get_child_resource(self, ctx, path_fragment), so the call raises TypeError
\* on them; a NodeResource takes the fragment alone.
get_child_resource(n, f) ==
    IF Cls(n) = "NodeResource"
    THEN [exc |-> NoExc, value |-> ChildOf(n, f)]
    ELSE [exc |-> "TypeError", value |-> NoRes]

_strip_query_string(path) ==
    LET query_string_pos == Find(path, "?")
    IN  IF query_string_pos = 0 THEN path
        ELSE SubSeq(path, 1, query_string_pos - 1)

_split_resource_path(p) ==
    LET path_fragments == Split(p, "/")
    IN  IF path_fragments[Len(path_fragments)] = <<>>
        THEN SubSeq(path_fragments, 1, Len(path_fragments) - 1)
        ELSE path_fragments

\* AssignPath without the test `resource.resource_path is None`
AssignPath_always(child, cur_resource_path, rp) ==
    [rp EXCEPT ![child] = Some(cur_resource_path)]

\* the body of the for loop: the assignment of resource_path to a child
AssignPath(child, cur_resource_path, rp) ==
    IF IsNone(ResourcePathOf(child, rp))
    THEN [rp EXCEPT ![child] = Some(cur_resource_path)]
    ELSE rp

\* ResolveLoop leaving the loop with the last resource found (break) where
\* the code returns None
ResolveLoop_break(resource, frags, cur_resource_path, rp, log) ==
    IF frags = <<>>
    THEN [result |-> resource, exc |-> NoExc, rp |-> rp, lookups |-> log]
    ELSE LET got == get_child_resource(resource, Head(frags))
         IN  [result |-> IF got.exc = NoExc /\ got.value # NoRes
                         THEN got.value ELSE resource,
              exc |-> got.exc, rp |-> rp,
              lookups |-> Append(log, <<resource, Head(frags)>>)]

RECURSIVE ResolveLoop(_, _, _, _, _)
\* the for loop of _resolve_resource, from `resource` with `frags` left.
\* Yields the resource (NoRes for None), the exception that escaped, the
\* resource_path attributes and the child lookups made.
ResolveLoop(resource, frags, cur_resource_path, rp, log) ==
    IF frags = <<>>
    THEN [result |-> resource, exc |-> NoExc, rp |-> rp, lookups |-> log]
    ELSE LET path_fragment == Head(frags)
             got == get_child_resource(resource, path_fragment)
             log2 == Append(log, <<resource, path_fragment>>)
             cur2 == cur_resource_path \o <<"/">> \o path_fragment
         IN  IF got.exc # NoExc
             THEN [result |-> NoRes, exc |-> got.exc, rp |-> rp, lookups |-> log2]
             ELSE IF got.value = NoRes
             THEN [result |-> NoRes, exc |-> NoExc, rp |-> rp, lookups |-> log2]
             ELSE ResolveLoop(got.value, Tail(frags), cur2,
                              AssignPath(got.value, cur2, rp), log2)

_resolve_resource(root_resource, path_fragments, rp) ==
    ResolveLoop(root_resource, path_fragments, <<>>, rp, <<>>)

(***************************************************************************)
(* views.py: APIContext.  A context is [base_uri, root_resource].          *)
(***************************************************************************)
resolve_resource_path(ctx, p, rp) ==
    _resolve_resource(ctx.root_resource, _split_resource_path(p), rp)

\* resolve_resource_uri without the startswith test
resolve_resource_uri_unchecked(ctx, uri, rp) ==
    resolve_resource_path(
        ctx, SubSeq(uri, Len(ctx.base_uri) + 1, Len(uri)), rp)

resolve_resource_uri(ctx, uri, rp) ==
    IF ~StartsWith(uri, ctx.base_uri)
    THEN [result |-> NoRes, exc |-> NoExc, rp |-> rp, lookups |-> <<>>]
    ELSE resolve_resource_path(
             ctx, SubSeq(uri, Len(ctx.base_uri) + 1, Len(uri)), rp)

\* build_resource_uri, given resource.resource_path
build_resource_uri(ctx, path) ==
    IF IsNone(path)
    THEN [exc |-> "ValueError", value |-> <<>>]
    ELSE [exc |-> NoExc, value |-> ctx.base_uri \o Val(path)]

(***************************************************************************)
(* resources.py: Related.  The sets a plan holds are objects: h is the     *)
(* heap of set objects (a sequence, the index being the object), and a     *)
(* plan is [prefix, _select, _prefetch, force_prefetch], _select and       *)
(* _prefetch naming objects of the heap.  A relationship path is a         *)
(* sequence of attribute names joined by "__".                             *)
(***************************************************************************)
\* __init__ with `select or set()` where the code tests `select is not None`
Related_or(prefix, sel, pre, force_prefetch, h) ==
    LET new_s == IsNone(sel) \/ h[Val(sel)] = {}
        h1 == IF new_s THEN Append(h, {}) ELSE h
        new_p == IsNone(pre) \/ h[Val(pre)] = {}
        h2 == IF new_p THEN Append(h1, {}) ELSE h1
    IN  [plan |-> [prefix |-> prefix,
                   _select |-> IF new_s THEN Len(h1) ELSE Val(sel),
                   _prefetch |-> IF new_p THEN Len(h2) ELSE Val(pre),
                   force_prefetch |-> force_prefetch],
         heap |-> h2]

\* Related.__init__(prefix, select, prefetch, force_prefetch): the new plan
\* and the heap, with a new empty set for each argument that is None
Related(prefix, sel, pre, force_prefetch, h) ==
    LET h1 == IF IsNone(sel) THEN Append(h, {}) ELSE h
        h2 == IF IsNone(pre) THEN Append(h1, {}) ELSE h1
    IN  [plan |-> [prefix |-> prefix,
                   _select |-> IF IsNone(sel) THEN Len(h1) ELSE Val(sel),
                   _prefetch |-> IF IsNone(pre) THEN Len(h2) ELSE Val(pre),
                   force_prefetch |-> force_prefetch],
         heap |-> h2]

translate(plan, attribute) ==
    IF IsNone(plan.prefix) THEN attribute
    ELSE Val(plan.prefix) \o <<"__">> \o attribute

prefetch(plan, attribute, h) ==
    [h EXCEPT ![plan._prefetch] = @ \cup {translate(plan, attribute)}]

select(plan, attribute, h) ==
    IF plan.force_prefetch THEN prefetch(plan, attribute, h)
    ELSE [h EXCEPT ![plan._select] = @ \cup {translate(plan, attribute)}]

\* sub_select that does not hand force_prefetch down
sub_select_unforced(plan, attribute, h) ==
    Related(Some(translate(plan, attribute)), Some(plan._select),
            Some(plan._prefetch), FALSE, h)

sub_select(plan, attribute, h) ==
    Related(Some(translate(plan, attribute)), Some(plan._select),
            Some(plan._prefetch), plan.force_prefetch, h)

sub_prefetch(plan, attribute, h) ==
    Related(Some(translate(plan, attribute)), Some(plan._select),
            Some(plan._prefetch), TRUE, h)

\* prepare that drops what select_related and prefetch_related return
related_prepare_discard(plan, h, queryset) == queryset

\* Related.prepare(queryset): a queryset is [rows, select_related,
\* prefetch_related], the two hint sets being what the calls were given
related_prepare(plan, h, queryset) ==
    LET q1 == IF h[plan._select] # {}
              THEN [queryset EXCEPT !.select_related = @ \cup h[plan._select]]
              ELSE queryset
    IN  IF h[plan._prefetch] # {}
        THEN [q1 EXCEPT !.prefetch_related = @ \cup h[plan._prefetch]]
        ELSE q1

(***************************************************************************)
(* fields.py: the field descriptors and their prepare.  A field is a       *)
(* record [kind, attribute, resource_class, use_prefetch]; the attribute   *)
(* of an AttributeField is the sequence of its dotted segments, that of    *)
(* the other kinds a one-name sequence.                                    *)
(***************************************************************************)
AttributeField(segments, use_prefetch) ==
    [kind |-> "AttributeField", attribute |-> segments,
     resource_class |-> "", use_prefetch |-> use_prefetch]
URIResourceField(attr, cls) ==
    [kind |-> "URIResourceField", attribute |-> <<attr>>,
     resource_class |-> cls, use_prefetch |-> FALSE]
SubModelResourceField(attr, cls, use_prefetch) ==
    [kind |-> "SubModelResourceField", attribute |-> <<attr>>,
     resource_class |-> cls, use_prefetch |-> use_prefetch]
RelatedManagerField(attr, cls) ==
    [kind |-> "RelatedManagerField", attribute |-> <<attr>>,
     resource_class |-> cls, use_prefetch |-> FALSE]

OtherField == URIResourceField("other", "OtherResource")

\* '__'.join(self._attrs[:-1]) of an AttributeField
related_attr(f) ==
    Join(<<"__">>, [i \in 1..(Len(f.attribute) - 1) |-> <<f.attribute[i]>>])

\* the select or prefetch a field's prepare makes on `plan` itself
prepare_own(f, plan, h) ==
    CASE f.kind = "AttributeField" ->
            IF related_attr(f) = <<>> THEN h
            ELSE IF f.use_prefetch THEN prefetch(plan, related_attr(f), h)
            ELSE select(plan, related_attr(f), h)
      [] f.kind = "URIResourceField" -> select(plan, f.attribute, h)
      [] f.kind = "SubModelResourceField" ->
            IF f.use_prefetch THEN prefetch(plan, f.attribute, h)
            ELSE select(plan, f.attribute, h)
      [] f.kind = "RelatedManagerField" -> prefetch(plan, f.attribute, h)

\* the sub-plan a field's prepare hands to its resource class's prepare
prepare_sub(f, plan, h) ==
    IF f.kind = "RelatedManagerField"
       \/ (f.kind = "SubModelResourceField" /\ f.use_prefetch)
    THEN sub_prefetch(plan, f.attribute, h)
    ELSE sub_select(plan, f.attribute, h)

RECURSIVE fields_prepare(_, _, _)
RECURSIVE field_prepare(_, _, _)
\* ModelResource.prepare: for field in cls.fields: field.prepare(ctx, related)
fields_prepare(fs, plan, h) ==
    IF fs = <<>> THEN h
    ELSE fields_prepare(Tail(fs), plan, field_prepare(Head(fs), plan, h))

\* field.prepare(ctx, related)
field_prepare(f, plan, h) ==
    IF f.kind = "AttributeField" THEN prepare_own(f, plan, h)
    ELSE LET sub == prepare_sub(f, plan, prepare_own(f, plan, h))
         IN  fields_prepare(fields(f.resource_class), sub.plan, sub.heap)

(***************************************************************************)
(* Wire values, and json.dump of them as a string of tokens.  A dict is a  *)
(* sequence of <<key, value>> in insertion order.                          *)
(***************************************************************************)
JStr(v) == [t |-> "str", v |-> v]
JList(v) == [t |-> "list", v |-> v]
JDict(v) == [t |-> "dict", v |-> v]
JNull == [t |-> "null", v |-> <<>>]

RECURSIVE JsonDump(_)
JsonDump(x) ==
    CASE x.t = "null" -> <<"null">>
      [] x.t = "str" -> <<"\"">> \o x.v \o <<"\"">>
      [] x.t = "list" ->
            <<"[">> \o Join(<<",">>, [i \in 1..Len(x.v) |-> JsonDump(x.v[i])])
                   \o <<"]">>
      [] x.t = "dict" ->
            <<"{">> \o Join(<<",">>,
                            [i \in 1..Len(x.v) |->
                                <<"\"">> \o x.v[i][1] \o <<"\"", ":">>
                                        \o JsonDump(x.v[i][2])])
                   \o <<"}">>

(***************************************************************************)
(* fields.py: URIResourceField('other', OtherResource,                     *)
(* published_property='other') on a model.  A world w holds what a request *)
(* reads and changes: [rp, db, next_pk, uri_calls, persist].  A wire       *)
(* mapping is a function from its keys; a model is <<class, pk>> and the   *)
(* attribute "other" of Item pk is db[pk], None or a model.                *)
(***************************************************************************)
\* handle_incoming: yields the exception or the value setattr stores
uri_handle_incoming(ctx, f, source_dict, w) ==
    IF f.attribute \notin DOMAIN source_dict
    THEN [exc |-> "KeyError", w |-> w, value |-> None]
    ELSE With(resolve_resource_uri(ctx, source_dict[f.attribute], w.rp), LAMBDA r :
         With([w EXCEPT !.rp = r.rp,
                        !.uri_calls = Append(@, [uri |-> source_dict[f.attribute],
                                               result |-> r.result,
                                               exc |-> r.exc,
                                               lookups |-> r.lookups])], LAMBDA w2 :
             IF r.exc # NoExc
             THEN [exc |-> r.exc, w |-> w2, value |-> None]
             ELSE IF r.result = NoRes
             THEN [exc |-> "ValueError", w |-> w2, value |-> None]
             ELSE IF Cls(r.result) \notin ModelClasses      \* resource.model
             THEN [exc |-> "AttributeError", w |-> w2, value |-> None]
             ELSE [exc |-> NoExc, w |-> w2, value |-> Some(ModelOf(r.result))]))

\* handle_outgoing: the wire value for the related model sub_model
uri_handle_outgoing(ctx, f, sub_model) ==
    IF IsNone(parent_resource_path(f.resource_class))
    THEN build_resource_uri(ctx, None)
    ELSE IF IsNone(sub_model)
    THEN [exc |-> "AttributeError", value |-> <<>>]       \* getattr(None, 'pk')
    ELSE build_resource_uri(
             ctx, model_resource_path(f.resource_class, Val(sub_model), None))

(***************************************************************************)
(* resources.py: ModelResource                                             *)
(***************************************************************************)
\* getattr(model, 'other')
OtherOf(model, w) ==
    IF model[1] = "Item" /\ model[2] \in DOMAIN w.db THEN w.db[model[2]] ELSE None

RECURSIVE outgoing(_, _, _, _)
\* for field in self.fields: field.handle_outgoing(ctx, self.model, target_dict)
outgoing(ctx, fs, model, w) ==
    IF fs = <<>> THEN [exc |-> NoExc, dict |-> <<>>]
    ELSE With(uri_handle_outgoing(ctx, Head(fs), OtherOf(model, w)), LAMBDA one :
         IF one.exc # NoExc THEN [exc |-> one.exc, dict |-> <<>>]
         ELSE With(outgoing(ctx, Tail(fs), model, w), LAMBDA rest :
              IF rest.exc # NoExc THEN rest
              ELSE [exc |-> NoExc,
                    dict |-> <<<<Head(fs).attribute, JStr(one.value)>>>>
                             \o rest.dict]))

\* ModelResource.get(ctx): the target_dict
model_get(ctx, cls, model, _resource_path, w) ==
    With(outgoing(ctx, fields(cls), model, w), LAMBDA out :
    With(model_resource_path(cls, model, _resource_path), LAMBDA path :
        IF out.exc # NoExc THEN [exc |-> out.exc, value |-> <<>>]
        ELSE IF IsNone(path) THEN [exc |-> NoExc, value |-> JDict(out.dict)]
        ELSE With(build_resource_uri(ctx, path), LAMBDA uri :
             [exc |-> uri.exc,
              value |-> JDict(Append(out.dict,
                                     <<<<"resourceUri">>, JStr(uri.value)>>))])))

\* model.save(): an unsaved Item is inserted under the next key
model_save(model, other, w) ==
    IF model[1] # "Item"
    THEN [w |-> [w EXCEPT !.persist = Append(@, <<"save", model[1], model[2]>>)],
          model |-> model]
    ELSE IF model[2] = 0
    THEN [w |-> [w EXCEPT !.db = (w.next_pk :> other) @@ @,
                          !.next_pk = @ + 1,
                          !.persist = Append(@, <<"save", "Item", w.next_pk>>)],
          model |-> <<"Item", w.next_pk>>]
    ELSE [w |-> [w EXCEPT !.db = (model[2] :> other) @@ @,
                          !.persist = Append(@, <<"save", "Item", model[2]>>)],
          model |-> model]

RECURSIVE incoming(_, _, _, _, _)
\* for field in self.fields: field.handle_incoming(ctx, source_dict, self.model)
incoming(ctx, fs, source_dict, other, w) ==
    IF fs = <<>> THEN [exc |-> NoExc, w |-> w, value |-> other]
    ELSE With(uri_handle_incoming(ctx, Head(fs), source_dict, w), LAMBDA one :
         IF one.exc # NoExc THEN [exc |-> one.exc, w |-> one.w, value |-> other]
         ELSE incoming(ctx, Tail(fs), source_dict, one.value, one.w))

\* ModelResource.put(ctx, source_dict)
model_put(ctx, cls, model, source_dict, w) ==
    With(incoming(ctx, fields(cls), source_dict, OtherOf(model, w), w), LAMBDA inc :
        IF inc.exc # NoExc THEN [exc |-> inc.exc, w |-> inc.w, model |-> model]
        ELSE With(model_save(model, inc.value, inc.w), LAMBDA saved :
             [exc |-> NoExc, w |-> saved.w, model |-> saved.model]))

(***************************************************************************)
(* resources.py: QuerySetResource (R4: resource_class = ItemResource, its  *)
(* queryset all the Item rows).  A queryset is [rows, select_related,      *)
(* prefetch_related].                                                      *)
(***************************************************************************)
AllItems(w) == [rows |-> DOMAIN w.db, select_related |-> {}, prefetch_related |-> {}]

\* self.queryset.filter(**kwargs): the store's filter; the only query
\* parameter of the model keeps the rows whose "other" is set
filter_queryset(kwargs, w) ==
    IF kwargs = {} THEN AllItems(w)
    ELSE [AllItems(w) EXCEPT !.rows = {k \in DOMAIN w.db : ~IsNone(w.db[k])}]

\* prepare_queryset: a fresh Related, the prepare recursion, then its prepare
prepare_queryset(cls, queryset) ==
    LET related == Related(None, None, None, FALSE, <<>>)
    IN  related_prepare(related.plan,
                        fields_prepare(fields(cls), related.plan, related.heap),
                        queryset)

\* to_resource(model): the _resource_path given to the new ItemResource
to_resource(self_path, cls, model) ==
    IF IsNone(model_resource_path(cls, model, None)) /\ ~IsNone(self_path)
    THEN Some(Val(self_path) \o <<"/">> \o key(model))
    ELSE None

RECURSIVE SortedSeq(_)
\* the rows in the order the store yields them: by key
SortedSeq(S) ==
    IF S = {} THEN <<>>
    ELSE LET m == CHOOSE x \in S : \A y \in S : x <= y
         IN  <<m>> \o SortedSeq(S \ {m})

RECURSIVE get_objects(_, _, _, _)
\* for model in queryset: objects.append(self.to_resource(model).get(ctx))
get_objects(ctx, self_path, pks, w) ==
    IF pks = <<>> THEN [exc |-> NoExc, value |-> <<>>]
    ELSE With(model_get(ctx, "ItemResource", <<"Item", Head(pks)>>,
                        to_resource(self_path, "ItemResource",
                                    <<"Item", Head(pks)>>), w), LAMBDA one :
         IF one.exc # NoExc THEN [exc |-> one.exc, value |-> <<>>]
         ELSE With(get_objects(ctx, self_path, Tail(pks), w), LAMBDA rest :
              IF rest.exc # NoExc THEN rest
              ELSE [exc |-> NoExc, value |-> <<one.value>> \o rest.value]))

\* QuerySetResource.get(ctx, **kwargs)
queryset_get(ctx, n, kwargs, w) ==
    With(prepare_queryset("ItemResource", filter_queryset(kwargs, w)), LAMBDA queryset :
    With(get_objects(ctx, w.rp[n], SortedSeq(queryset.rows), w), LAMBDA objs :
        IF objs.exc # NoExc THEN [exc |-> objs.exc, value |-> JNull]
        ELSE [exc |-> NoExc,
              value |-> JDict(<<<<<<"objects">>, JList(objs.value)>>>>)]))

NoResource == [cls |-> "", model |-> <<"", 0>>, resource_path |-> None]

\* queryset_post deriving the path before put has saved the model
queryset_post_early_key(ctx, n, source_dict, w) ==
    With(model_put(ctx, "ItemResource", <<"Item", 0>>, source_dict, w), LAMBDA put :
        IF put.exc # NoExc
        THEN [exc |-> put.exc, w |-> put.w, value |-> NoResource]
        ELSE [exc |-> NoExc, w |-> put.w,
              value |-> [cls |-> "ItemResource", model |-> put.model,
                         resource_path |->
                             IF ~IsNone(parent_resource_path("ItemResource"))
                             THEN Some(Val(parent_resource_path("ItemResource"))
                                       \o <<"/">> \o key(<<"Item", 0>>))
                             ELSE IF ~IsNone(put.w.rp[n])
                             THEN Some(Val(put.w.rp[n]) \o <<"/">>
                                       \o key(<<"Item", 0>>))
                             ELSE None]])

\* QuerySetResource.post(ctx, source_dict): the new resource, with the
\* resource_path it answers
queryset_post(ctx, n, source_dict, w) ==
    With(model_put(ctx, "ItemResource", <<"Item", 0>>, source_dict, w), LAMBDA put :
        IF put.exc # NoExc
        THEN [exc |-> put.exc, w |-> put.w, value |-> NoResource]
        ELSE With(IF IsNone(model_resource_path("ItemResource", put.model, None))
                     /\ ~IsNone(put.w.rp[n])
                  THEN Some(Val(put.w.rp[n]) \o <<"/">> \o key(put.model))
                  ELSE None, LAMBDA _resource_path :
             [exc |-> NoExc, w |-> put.w,
              value |-> [cls |-> "ItemResource", model |-> put.model,
                         resource_path |->
                             model_resource_path("ItemResource", put.model,
                                                 _resource_path)]]))

(***************************************************************************)
(* The verb handlers as views.py calls them: get(ctx, **request.GET),      *)
(* post(ctx, dict), put(ctx, dict), delete().  Each yields [exc, w, value].*)
(***************************************************************************)
resource_get(ctx, n, kwargs, w) ==
    CASE Cls(n) = "NodeResource" ->
            [exc |-> NoExc, w |-> w, value |-> JDict(<<<<<<"id">>, JStr(<<n>>)>>>>)]
      [] Cls(n) = "QuerySetResource" ->
            With(queryset_get(ctx, n, kwargs, w), LAMBDA r :
                 [exc |-> r.exc, w |-> w, value |-> r.value])
      [] Cls(n) \in ModelClasses ->
            With(model_get(ctx, Cls(n), ModelOf(n), w.rp[n], w), LAMBDA r :
                 [exc |-> r.exc, w |-> w, value |-> r.value])

resource_post(ctx, n, source_dict, w) == queryset_post(ctx, n, source_dict, w)

resource_put(ctx, n, source_dict, w) ==
    IF Cls(n) = "NodeResource" THEN [exc |-> NoExc, w |-> w]
    ELSE With(model_put(ctx, Cls(n), ModelOf(n), source_dict, w), LAMBDA r :
              [exc |-> r.exc, w |-> r.w])

\* resource.delete(): ModelResource defines delete(self, ctx), so the call
\* without ctx raises TypeError before the model is touched
resource_delete(n, w) ==
    IF Cls(n) = "NodeResource" THEN [exc |-> NoExc, w |-> w]
    ELSE [exc |-> "TypeError", w |-> w]

(***************************************************************************)
(* views.py: the dispatcher.  A response is [status, exc, Allowed,         *)
(* Location, content]; exc names the exception that escaped the view       *)
(* (status 0) when no HttpResponse was returned.                           *)
(***************************************************************************)
HttpResponse(status) ==
    [status |-> status, exc |-> NoExc, Allowed |-> None, Location |-> None,
     content |-> <<>>]
Raised(exc) ==
    [status |-> 0, exc |-> exc, Allowed |-> None, Location |-> None,
     content |-> <<>>]

Outcome(w, cs, new_resource, resp) ==
    [w |-> w, calls |-> cs, created |-> new_resource, response |-> resp]

_not_found == HttpResponse(404)

\* ','.join(resource.allowed_methods): `order` is the order in which this
\* build iterates a set of the four verbs
_not_allowed_method(n, order) ==
    [HttpResponse(405) EXCEPT !.Allowed =
        Some(Join(<<",">>,
                  LET listed == SelectSeq(order, LAMBDA m : m \in allowed_methods(n))
                  IN  [i \in 1..Len(listed) |-> <<listed[i]>>]))]

_created(ctx, new_resource) ==
    LET uri == build_resource_uri(ctx, new_resource.resource_path)
    IN  IF uri.exc # NoExc THEN Raised(uri.exc)
        ELSE [HttpResponse(201) EXCEPT !.Location = Some(uri.value)]

_json_success(content_dict) ==
    [HttpResponse(200) EXCEPT !.content = JsonDump(content_dict)]

_success == HttpResponse(200)

_process_get(ctx, n, req, w, order) ==
    IF "GET" \in allowed_methods(n)
    THEN With(resource_get(ctx, n, req.GET, w), LAMBDA r :
              Outcome(r.w, <<<<n, "GET">>>>, NoResource,
                      IF r.exc # NoExc THEN Raised(r.exc)
                      ELSE _json_success(r.value)))
    ELSE Outcome(w, <<>>, NoResource, _not_allowed_method(n, order))

_process_post(ctx, n, req, w, order) ==
    IF "POST" \in allowed_methods(n)
    THEN With(resource_post(ctx, n, req.body, w), LAMBDA r :
              Outcome(r.w, <<<<n, "POST">>>>, r.value,
                      IF r.exc # NoExc THEN Raised(r.exc)
                      ELSE _created(ctx, r.value)))
    ELSE Outcome(w, <<>>, NoResource, _not_allowed_method(n, order))

_process_put(ctx, n, req, w, order) ==
    IF "PUT" \in allowed_methods(n)
    THEN With(resource_put(ctx, n, req.body, w), LAMBDA r :
              Outcome(r.w, <<<<n, "PUT">>>>, NoResource,
                      IF r.exc # NoExc THEN Raised(r.exc) ELSE _success))
    ELSE Outcome(w, <<>>, NoResource, _not_allowed_method(n, order))

\* _process_delete without the allowed_methods test
_process_delete_unchecked(ctx, n, req, w, order) ==
    LET r == resource_delete(n, w)
    IN  Outcome(r.w, <<<<n, "DELETE">>>>, NoResource,
                IF r.exc # NoExc THEN Raised(r.exc) ELSE _success)

_process_delete(ctx, n, req, w, order) ==
    IF "DELETE" \in allowed_methods(n)
    THEN LET r == resource_delete(n, w)
         IN  Outcome(r.w, <<<<n, "DELETE">>>>, NoResource,
                     IF r.exc # NoExc THEN Raised(r.exc) ELSE _success)
    ELSE Outcome(w, <<>>, NoResource, _not_allowed_method(n, order))

\* the request's host and the path the API is mounted at
Host == <<"h">>
Mount == <<"/", "x", "/">>

\* request.build_absolute_uri(path)
build_absolute_uri(path) == Host \o path

\* APIContext(http_request, base_path, root_resource)
APIContext(base_path, root_resource) ==
    [base_uri |-> build_absolute_uri(base_path), root_resource |-> root_resource]

\* api_view(root_resource): run once, at startup
api_view(rp) ==
    IF IsNone(rp[RootNode]) THEN [rp EXCEPT ![RootNode] = Some(<<>>)] ELSE rp

\* view(request, resource_path): the whole request.  req is [method, path,
\* query, GET, body]; the result has the context, the resolution and the
\* outcome of the dispatch.
view(req, w, order) ==
    With(_strip_query_string(Mount \o req.path \o req.query), LAMBDA full_path :
    With(IF Len(req.path) = 0 THEN full_path
         ELSE SubSeq(full_path, 1, Len(full_path) - Len(req.path)), LAMBDA base_path :
    With(APIContext(base_path, RootNode), LAMBDA ctx :
    With(resolve_resource_path(ctx, req.path, w.rp), LAMBDA r :
    With([w EXCEPT !.rp = r.rp], LAMBDA w1 :
    With(r.result, LAMBDA n :
        [ctx |-> ctx, resolved |-> r,
         out |-> IF r.exc # NoExc
                 THEN Outcome(w1, <<>>, NoResource, Raised(r.exc))
                 ELSE IF n = NoRes
                 THEN Outcome(w1, <<>>, NoResource, _not_found)
                 ELSE IF req.method = "GET" THEN _process_get(ctx, n, req, w1, order)
                 ELSE IF req.method = "POST" THEN _process_post(ctx, n, req, w1, order)
                 ELSE IF req.method = "PUT" THEN _process_put(ctx, n, req, w1, order)
                 ELSE IF req.method = "DELETE"
                 THEN _process_delete(ctx, n, req, w1, order)
                 ELSE Outcome(w1, <<>>, NoResource,
                              _not_allowed_method(n, order))]))))))

(***************************************************************************)
(* The requests of the model                                               *)
(***************************************************************************)
Frags == {<<"a">>, <<"b">>, <<"q">>, <<>>}
Paths == {Join(<<"/">>, fs) : fs \in UNION {[1..k -> Frags] : k \in 1..MaxFrags}}
QueryStrings == {<<>>, <<"?", "o">>}

BaseUri == Host \o Mount
Uris == {BaseUri \o <<"a", "/", "q">>, BaseUri \o <<"a", "/", "q", "/">>,
         BaseUri \o <<"a">>, BaseUri \o <<"b">>,
         Host \o <<"/", "y", "/", "a", "/", "q">>, Host}
Bodies == {<<>>} \cup {(<<"other">> :> u) : u \in Uris}

CanonOrder == <<"GET", "POST", "PUT", "DELETE">>
VerbOrders == {o \in [1..4 -> Verbs] : \A i, j \in 1..4 : o[i] = o[j] => i = j}

\* one iteration order for each way the allowed verbs of n can be listed
ListingOrders(n) ==
    {o \in VerbOrders :
        LET rest == SelectSeq(o, LAMBDA m : m \notin allowed_methods(n))
        IN  rest = SelectSeq(CanonOrder, LAMBDA m : m \notin allowed_methods(n))
            /\ \A i, j \in 1..4 :
                   (o[i] \in allowed_methods(n) /\ o[j] \notin allowed_methods(n))
                   => i < j}

IdleRequest == [method |-> "", path |-> <<>>, query |-> <<>>, GET |-> {}, body |-> <<>>]
IdleResolved == [result |-> NoRes, exc |-> NoExc]

DispatchInit ==
    /\ root_cls \in {"NodeResource", "APIResource"}
    /\ item_parent_path \in {None, Some(<<"q">>)}
    /\ item_fields \in {<<>>, <<OtherField>>}
    /\ other_fields = <<>>
    /\ \E r0 \in (IF root_cls = "APIResource" THEN {Some(<<>>)}
                  ELSE {None, Some(<<"r">>)}),
          r1 \in (IF root_cls = "APIResource" THEN {Some(<<"a">>)} ELSE {None}),
          r4 \in (IF root_cls = "APIResource" THEN {Some(<<"q">>)}
                  ELSE {None, Some(<<"q">>)}) :
            resource_path =
                api_view([n \in Nodes |->
                            CASE n = "R0" -> r0 [] n = "R1" -> r1
                              [] n = "R2" -> Some(<<"s">>) [] n = "R4" -> r4
                              [] OTHER -> None])
    /\ db = (1 :> None)
    /\ next_pk = 2
    /\ pc = "idle"
    /\ request = IdleRequest
    /\ base_uri = <<>>
    /\ resolved = IdleResolved
    /\ lookups = <<>>
    /\ uri_calls = <<>>
    /\ calls = <<>>
    /\ persist = <<>>
    /\ created = NoResource
    /\ response = HttpResponse(0)

RelatedIdle ==
    /\ plans = <<>>
    /\ heap = <<>>
    /\ last_op = <<>>
    /\ final_qs = <<>>
    /\ qp = <<>>
    /\ tgt = <<>>
    /\ cq = <<>>

Init == DispatchInit /\ RelatedIdle

\* One request, from the view's call to its return (or to the exception
\* that escapes it).
View ==
    /\ pc = "idle"
    /\ \E method \in Methods, p \in Paths, query \in QueryStrings :
       \E body \in (IF method \in {"POST", "PUT"} THEN Bodies ELSE {<<>>}) :
        LET req == [method |-> method, path |-> p, query |-> query,
                    GET |-> IF query = <<>> THEN {} ELSE {"other"},
                    body |-> body]
            w0 == [rp |-> resource_path, db |-> db, next_pk |-> next_pk,
                   uri_calls |-> <<>>, persist |-> <<>>]
        IN  /\ method = "POST" => next_pk <= MaxPk
            /\ \E probe \in {view(req, w0, CanonOrder)} :
               \E order \in (IF probe.out.response.status = 405
                             THEN ListingOrders(probe.resolved.result)
                             ELSE {CanonOrder}) :
               \E v \in {IF order = CanonOrder THEN probe
                         ELSE view(req, w0, order)} :
                    /\ request' = req
                    /\ base_uri' = v.ctx.base_uri
                    /\ resolved' = [result |-> v.resolved.result,
                                    exc |-> v.resolved.exc]
                    /\ lookups' = v.resolved.lookups
                    /\ resource_path' = v.out.w.rp
                    /\ db' = v.out.w.db
                    /\ next_pk' = v.out.w.next_pk
                    /\ uri_calls' = v.out.w.uri_calls
                    /\ persist' = v.out.w.persist
                    /\ calls' = v.out.calls
                    /\ created' = v.out.created
                    /\ response' = v.out.response
    /\ pc' = "responded"
    /\ UNCHANGED <<root_cls, item_parent_path, item_fields, other_fields>>
    /\ UNCHANGED <<relatedVars, qp, tgt, cq>>

\* The response is delivered; the context and the request's locals are
\* discarded.
Respond ==
    /\ pc = "responded"
    /\ pc' = "idle"
    /\ request' = IdleRequest
    /\ base_uri' = <<>>
    /\ resolved' = IdleResolved
    /\ lookups' = <<>>
    /\ uri_calls' = <<>>
    /\ calls' = <<>>
    /\ persist' = <<>>
    /\ created' = NoResource
    /\ response' = HttpResponse(0)
    /\ UNCHANGED <<root_cls, item_parent_path, item_fields, other_fields,
                   resource_path, db, next_pk>>
    /\ UNCHANGED <<relatedVars, qp, tgt, cq>>

Next == View \/ Respond

Spec == Init /\ [][Next]_vars

(***************************************************************************)
(* resources.py: a family of Related plans in use.  `plans` holds the      *)
(* plans constructed so far, each with the chain of sub_select and         *)
(* sub_prefetch calls that derived it from the root (the chain is history, *)
(* not a field of the object); `heap` holds the set objects; last_op is    *)
(* the call made last; final_qs is what the root's prepare returned.       *)
(***************************************************************************)
MaxPlans == 2
MaxHints == 2

Attrs == {<<"a">>, <<"b">>}

\* the queryset the root's prepare is given
BaseQuerySet == [rows |-> {1}, select_related |-> {}, prefetch_related |-> {}]

DispatchStill ==
    /\ root_cls = "NodeResource"
    /\ item_parent_path = None
    /\ item_fields = <<>>
    /\ other_fields = <<>>
    /\ resource_path = api_view([n \in Nodes |-> None])
    /\ db = (1 :> None)
    /\ next_pk = 2
    /\ pc = "idle"
    /\ request = IdleRequest
    /\ base_uri = <<>>
    /\ resolved = IdleResolved
    /\ lookups = <<>>
    /\ uri_calls = <<>>
    /\ calls = <<>>
    /\ persist = <<>>
    /\ created = NoResource
    /\ response = HttpResponse(0)

Op(op, chain, attribute) == <<[op |-> op, chain |-> chain, attribute |-> attribute]>>

TotalHints(h) == Cardinality(UNION {{<<i, x>> : x \in h[i]} : i \in DOMAIN h})

\* related = Related()
InitRelated ==
    /\ DispatchStill
    /\ \E r \in {Related(None, None, None, FALSE, <<>>)} :
        /\ plans = {[plan |-> r.plan, chain |-> <<>>]}
        /\ heap = r.heap
    /\ last_op = <<>>
    /\ final_qs = <<>>
    /\ qp = <<>>
    /\ tgt = <<>>
    /\ cq = <<>>

Select ==
    /\ final_qs = <<>>
    /\ TotalHints(heap) < MaxHints
    /\ \E p \in plans, attribute \in Attrs :
        /\ heap' = select(p.plan, attribute, heap)
        /\ last_op' = Op("select", p.chain, attribute)
    /\ UNCHANGED <<plans, final_qs, qp, tgt, cq, dispatchVars>>

Prefetch ==
    /\ final_qs = <<>>
    /\ TotalHints(heap) < MaxHints
    /\ \E p \in plans, attribute \in Attrs :
        /\ heap' = prefetch(p.plan, attribute, heap)
        /\ last_op' = Op("prefetch", p.chain, attribute)
    /\ UNCHANGED <<plans, final_qs, qp, tgt, cq, dispatchVars>>

SubSelect ==
    /\ final_qs = <<>>
    /\ Cardinality(plans) <= MaxPlans
    /\ \E p \in plans, attribute \in Attrs :
       \E r \in {sub_select(p.plan, attribute, heap)} :
        /\ plans' = plans \cup {[plan |-> r.plan,
                                 chain |-> Append(p.chain, <<"sub_select", attribute>>)]}
        /\ heap' = r.heap
        /\ last_op' = Op("sub_select", p.chain, attribute)
    /\ UNCHANGED <<final_qs, qp, tgt, cq, dispatchVars>>

SubPrefetch ==
    /\ final_qs = <<>>
    /\ Cardinality(plans) <= MaxPlans
    /\ \E p \in plans, attribute \in Attrs :
       \E r \in {sub_prefetch(p.plan, attribute, heap)} :
        /\ plans' = plans \cup {[plan |-> r.plan,
                                 chain |-> Append(p.chain, <<"sub_prefetch", attribute>>)]}
        /\ heap' = r.heap
        /\ last_op' = Op("sub_prefetch", p.chain, attribute)
    /\ UNCHANGED <<final_qs, qp, tgt, cq, dispatchVars>>

\* related.prepare(queryset) on the root plan
Finalize ==
    /\ final_qs = <<>>
    /\ \E root \in {p \in plans : p.chain = <<>>} :
        final_qs' = <<related_prepare(root.plan, heap, BaseQuerySet)>>
    /\ last_op' = Op("prepare", <<>>, <<>>)
    /\ UNCHANGED <<plans, heap, qp, tgt, cq, dispatchVars>>

NextRelated == Select \/ Prefetch \/ SubSelect \/ SubPrefetch \/ Finalize

SpecRelated == InitRelated /\ [][NextRelated]_vars

(***************************************************************************)
(* resources.py: QuerySetResource.get and get_child_resource, statement by *)
(* statement, for the collection of Item rows (resource_class =            *)
(* ItemResource).  qp holds the call's position and locals; qp.todo is the *)
(* stack of field.prepare calls not yet made, each with the plan it is     *)
(* given; qp.events is the history of the call; qp.n counts the calls.     *)
(* The set objects of earlier calls stay on the heap.                      *)
(***************************************************************************)
MaxQueries == 2

ItemFieldLists ==
    {<<>>,
     <<OtherField>>,
     <<AttributeField(<<"other", "name">>, FALSE),
       SubModelResourceField("other", "OtherResource", FALSE)>>,
     <<RelatedManagerField("others", "OtherResource"),
       AttributeField(<<"name">>, FALSE)>>,
     <<SubModelResourceField("other", "OtherResource", TRUE)>>}

OtherFieldLists ==
    {<<>>,
     <<AttributeField(<<"owner", "name">>, TRUE)>>,
     <<URIResourceField("owner", "OwnerResource")>>}

PathFragments == {<<"1">>, <<"2">>, <<"x">>}

\* int(s) for a string of digits and letters: None stands for ValueError
PyInt(s) ==
    IF s # <<>> /\ \A i \in 1..Len(s) : \E d \in 1..10 : Digits[d] = s[i]
    THEN LET digit(c) == (CHOOSE d \in 1..10 : Digits[d] = c) - 1
             value[i \in 0..Len(s)] ==
                 IF i = 0 THEN 0 ELSE value[i - 1] * 10 + digit(s[i])
         IN  Some(value[Len(s)])
    ELSE None

\* ModelResource.get_from_queryset with published_key = ('pk', int):
\* [exc, executed, rows], rows holding the model queryset.get returned
get_from_queryset(cls, queryset, path_fragment) ==
    LET v == PyInt(path_fragment)
    IN  IF IsNone(v) THEN [exc |-> "ValueError", executed |-> FALSE, rows |-> <<>>]
        ELSE IF Val(v) \in queryset.rows
        THEN [exc |-> NoExc, executed |-> TRUE, rows |-> <<Val(v)>>]
        ELSE [exc |-> "DoesNotExist", executed |-> TRUE, rows |-> <<>>]

QueryIdle(n) ==
    [pc |-> "idle", n |-> n, caller |-> "", kwargs |-> {}, path_fragment |-> <<>>,
     queryset0 |-> None, related |-> None, todo |-> <<>>, queryset |-> None,
     executed |-> None, result |-> [exc |-> NoExc, rows |-> <<>>],
     events |-> <<>>]

InitQuery ==
    /\ root_cls = "NodeResource"
    /\ item_parent_path = None
    /\ item_fields \in ItemFieldLists
    /\ other_fields \in OtherFieldLists
    /\ resource_path = api_view([n \in Nodes |-> None])
    /\ db \in {(1 :> None), (1 :> None) @@ (2 :> Some(1))}
    /\ next_pk = 3
    /\ pc = "idle"
    /\ request = IdleRequest
    /\ base_uri = <<>>
    /\ resolved = IdleResolved
    /\ lookups = <<>>
    /\ uri_calls = <<>>
    /\ calls = <<>>
    /\ persist = <<>>
    /\ created = NoResource
    /\ response = HttpResponse(0)
    /\ plans = <<>>
    /\ heap = <<>>
    /\ last_op = <<>>
    /\ final_qs = <<>>
    /\ qp = QueryIdle(0)
    /\ tgt = <<>>
    /\ cq = <<>>

queryStill == <<dispatchVars, plans, last_op, final_qs, tgt, cq>>

\* get(ctx, **kwargs) evaluates self.filter_queryset(**kwargs), and
\* get_child_resource(ctx, path_fragment) self.queryset, and each calls
\* prepare_queryset with it
Call ==
    /\ qp.pc = "idle"
    /\ qp.n < MaxQueries
    /\ \/ \E kwargs \in {{}, {"other"}} :
            qp' = [QueryIdle(qp.n + 1) EXCEPT
                      !.pc = "called", !.caller = "get", !.kwargs = kwargs,
                      !.queryset0 = Some(filter_queryset(kwargs, [db |-> db]))]
       \/ \E path_fragment \in PathFragments :
            qp' = [QueryIdle(qp.n + 1) EXCEPT
                      !.pc = "called", !.caller = "get_child_resource",
                      !.path_fragment = path_fragment,
                      !.queryset0 = Some(AllItems([db |-> db]))]
    /\ UNCHANGED <<heap, queryStill>>

\* related = Related(); self.prepare(ctx, related) enters
\* resource_class.prepare, which is to call prepare on each of cls.fields
NewRelated ==
    /\ qp.pc = "called"
    /\ \E r \in {Related(None, None, None, FALSE, heap)} :
        /\ heap' = r.heap
        /\ qp' = [qp EXCEPT !.pc = "preparing",
                            !.related = Some(r.plan),
                            !.todo = [i \in 1..Len(fields("ItemResource")) |->
                                         <<fields("ItemResource")[i], r.plan>>],
                            !.events = Append(@, "Related")]
    /\ UNCHANGED queryStill

\* the next field.prepare(ctx, related): its own select or prefetch, and
\* for a field with a resource class the entry into that class's prepare
\* with the sub-plan
FieldPrepare ==
    /\ qp.pc = "preparing"
    /\ qp.todo # <<>>
    /\ LET f == Head(qp.todo)[1]
           plan == Head(qp.todo)[2]
       IN  IF f.kind = "AttributeField"
           THEN /\ heap' = prepare_own(f, plan, heap)
                /\ qp' = [qp EXCEPT !.todo = Tail(@),
                                    !.events = Append(@, "prepare")]
           ELSE \E sub \in {prepare_sub(f, plan, prepare_own(f, plan, heap))} :
                /\ heap' = sub.heap
                /\ qp' = [qp EXCEPT
                            !.todo = [i \in 1..Len(fields(f.resource_class)) |->
                                         <<fields(f.resource_class)[i], sub.plan>>]
                                     \o Tail(@),
                            !.events = Append(@, "prepare")]
    /\ UNCHANGED queryStill

\* return related.prepare(queryset), assigned to the caller's queryset
RelatedPrepare ==
    /\ qp.pc = "preparing"
    /\ qp.todo = <<>>
    /\ qp' = [qp EXCEPT !.pc = "prepared",
                        !.queryset = Some(related_prepare(Val(qp.related), heap,
                                                          Val(qp.queryset0))),
                        !.events = Append(@, "finalize")]
    /\ UNCHANGED <<heap, queryStill>>

\* get: for model in queryset; get_child_resource: get_from_queryset, whose
\* DoesNotExist is answered None and whose ValueError escapes
Execute ==
    /\ qp.pc = "prepared"
    /\ IF qp.caller = "get"
       THEN qp' = [qp EXCEPT !.pc = "done",
                             !.executed = qp.queryset,
                             !.result = [exc |-> NoExc,
                                         rows |-> SortedSeq(Val(qp.queryset).rows)],
                             !.events = Append(@, "execute")]
       ELSE \E r \in {get_from_queryset("ItemResource", Val(qp.queryset),
                                        qp.path_fragment)} :
            qp' = [qp EXCEPT !.pc = "done",
                             !.executed = IF r.executed THEN qp.queryset ELSE None,
                             !.result = [exc |-> IF r.exc = "DoesNotExist"
                                                 THEN NoExc ELSE r.exc,
                                         rows |-> r.rows],
                             !.events = IF r.executed THEN Append(@, "execute")
                                        ELSE @]
    /\ UNCHANGED <<heap, queryStill>>

\* the call returns; its locals are gone
Return ==
    /\ qp.pc = "done"
    /\ qp' = QueryIdle(qp.n)
    /\ UNCHANGED <<heap, queryStill>>

NextQuery == Call \/ NewRelated \/ FieldPrepare \/ RelatedPrepare \/ Execute \/ Return

SpecQuery == InitQuery /\ [][NextQuery]_vars

(***************************************************************************)
(* The dispatcher and the resolver: claims C1 to C7                        *)
(***************************************************************************)
Responded == pc = "responded"
ResolvedOk == Responded /\ resolved.exc = NoExc /\ resolved.result # NoRes

\* the verbs a header value lists, in order
ListedVerbs(h) == IF h = <<>> THEN <<>> ELSE Split(h, ",")

\* C1: a request that resolves to a resource, with a method that is not in
\* the resource's allowed_methods (GET, POST, PUT, DELETE or any other), is
\* answered 405 with an Allowed header that lists exactly the verbs of
\* allowed_methods, each once, and no verb handler is invoked.
C1_MethodNotAllowed ==
    (ResolvedOk /\ request.method \notin allowed_methods(resolved.result))
    => /\ response.status = 405
       /\ response.exc = NoExc
       /\ ~IsNone(response.Allowed)
       /\ LET listed == ListedVerbs(Val(response.Allowed))
          IN  /\ {listed[i] : i \in 1..Len(listed)}
                    = {<<m>> : m \in allowed_methods(resolved.result)}
              /\ Len(listed) = Cardinality(allowed_methods(resolved.result))
       /\ calls = <<>>
       /\ persist = <<>>

\* DELETE on R1, which implements only GET and PUT, was answered 405
C1_Witness ==
    /\ ResolvedOk /\ resolved.result = "R1" /\ request.method = "DELETE"
    /\ response.status = 405
    /\ response.Allowed = Some(<<"PUT", ",", "GET">>)

\* the fragments of the request path, and whether lookup i found no child
RequestFrags == _split_resource_path(request.path)
NoMatchAt(i) ==
    get_child_resource(lookups[i][1], lookups[i][2])
        = [exc |-> NoExc, value |-> NoRes]

C3_AllowedVerbDispatched ==
    (ResolvedOk /\ request.method \in allowed_methods(resolved.result))
    => /\ calls = <<<<resolved.result, request.method>>>>
       /\ (request.method = "GET" /\ response.exc = NoExc)
            => /\ response.status = 200
               /\ response.content # <<>>
       /\ (request.method = "PUT" /\ response.exc = NoExc)
            => /\ response = HttpResponse(200)
               /\ Cls(resolved.result) \in ModelClasses
                    => /\ persist # <<>>
                       /\ persist[Len(persist)]
                            = <<"save">> \o ModelOf(resolved.result)
       /\ request.method = "DELETE"
            => /\ response = HttpResponse(200)
               /\ Cls(resolved.result) \in ModelClasses
                    => /\ persist # <<>>
                       /\ persist[Len(persist)]
                            = <<"delete">> \o ModelOf(resolved.result)

\* the step of a request
IsRequest == pc = "idle" /\ pc' = "responded"

\* the body of the request deserializes into an Item: each field finds its
\* key, and the URI it holds resolves to a ModelResource
Deserializable(req, ucalls) ==
    item_fields = <<>>
    \/ /\ <<"other">> \in DOMAIN req.body
       /\ Len(ucalls) = 1
       /\ ucalls[1].uri = req.body[<<"other">>]
       /\ ucalls[1].result \in {"R3", "R5"}

\* C4: a POST that resolves to the collection R4 (addressable once
\* resolved), with a body that deserializes, saves exactly one new Item
\* holding the deserialized value, returns a resource whose path is the
\* Item's own (its parent_resource_path + / + key) or, when it has none,
\* the collection's path + / + key, and is answered 201 with Location =
\* base URI + that path.
C4_PostCreates ==
    [][(IsRequest /\ request'.method = "POST" /\ resolved'.result = "R4"
            /\ Deserializable(request', uri_calls'))
        => LET k == next_pk
               path == IF ~IsNone(item_parent_path)
                       THEN Val(item_parent_path) \o <<"/">> \o StrInt(k)
                       ELSE Val(resource_path'["R4"]) \o <<"/">> \o StrInt(k)
           IN  /\ ~IsNone(resource_path'["R4"])
               /\ k \notin DOMAIN db
               /\ DOMAIN db' = DOMAIN db \cup {k}
               /\ \A j \in DOMAIN db : db'[j] = db[j]
               /\ db'[k] = IF item_fields = <<>> THEN None
                           ELSE Some(ModelOf(uri_calls'[1].result))
               /\ persist' = <<<<"save", "Item", k>>>>
               /\ calls' = <<<<"R4", "POST">>>>
               /\ created' = [cls |-> "ItemResource", model |-> <<"Item", k>>,
                              resource_path |-> Some(path)]
               /\ response' = [HttpResponse(201) EXCEPT
                                  !.Location = Some(base_uri' \o path)]]_vars

\* a POST created Item 2 under a collection whose path the resolver assigned
C4_Witness ==
    /\ Responded /\ request.method = "POST" /\ response.status = 201
    /\ IsNone(item_parent_path)
    /\ created.resource_path = Some(<<"/", "q", "/", "2">>)
    /\ response.Location = Some(BaseUri \o <<"/", "q", "/", "2">>)
    /\ db[2] = Some(<<"Other", 1>>)

\* C5: no step changes a resource_path that is set (by its class, at
\* construction or by an earlier resolution); and the resource a resolution
\* through api_view returns, the root included, has a resource_path, so
\* that build_resource_uri on it does not raise.
C5_PathAssignedOnce ==
    [][/\ \A n \in Nodes :
            ~IsNone(ResourcePathOf(n, resource_path))
                => resource_path'[n] = resource_path[n]
       /\ (pc' = "responded" /\ resolved'.exc = NoExc
                             /\ resolved'.result # NoRes)
            => /\ ~IsNone(ResourcePathOf(resolved'.result, resource_path'))
               /\ build_resource_uri(
                      [base_uri |-> base_uri', root_resource |-> RootNode],
                      ResourcePathOf(resolved'.result, resource_path')).exc
                    = NoExc]_vars

\* R2 was resolved through R1: R1 got its path from the resolver, R2 kept
\* the one it was constructed with
C5_Witness ==
    /\ ResolvedOk /\ resolved.result = "R2"
    /\ resource_path["R1"] = Some(<<"/", "a">>)
    /\ resource_path["R2"] = Some(<<"s">>)

\* C6 (as claimed): resolving the empty path returns the root, and
\* resolving a path that ends with a separator has the outcome (resource,
\* exception, child lookups) of resolving the path without that separator.
C6_TrailingSeparator ==
    Responded =>
       /\ request.path = <<>> =>
            (resolved.result = RootNode /\ resolved.exc = NoExc /\ lookups = <<>>)
       /\ (request.path # <<>> /\ request.path[Len(request.path)] = "/") =>
            LET p == SubSeq(request.path, 1, Len(request.path) - 1)
                r == _resolve_resource(RootNode, _split_resource_path(p),
                                       resource_path)
            IN  /\ resolved.result = r.result
                /\ resolved.exc = r.exc
                /\ lookups = r.lookups

\* the remainder of a URI after the first n characters
Remainder(uri, n) == [j \in 1..(Len(uri) - n) |-> uri[j + n]]

\* C7: each resolve_resource_uri call of a request returned no match, with
\* no child lookup, when the URI does not start with the base URI; and
\* otherwise what the resolution of the rest of the URI, as a resource path
\* from the root, returns.
C7_ResolveUri ==
    Responded =>
      \A i \in 1..Len(uri_calls) :
        LET c == uri_calls[i]
            has_prefix ==
                /\ Len(c.uri) >= Len(base_uri)
                /\ \A j \in 1..Len(base_uri) : c.uri[j] = base_uri[j]
            r == _resolve_resource(
                     RootNode,
                     _split_resource_path(Remainder(c.uri, Len(base_uri))),
                     resource_path)
        IN  IF ~has_prefix
            THEN c.result = NoRes /\ c.exc = NoExc /\ c.lookups = <<>>
            ELSE c.result = r.result /\ c.exc = r.exc /\ c.lookups = r.lookups

\* a URI under the base URI was resolved to R5 through two child lookups
C7_Witness ==
    /\ Responded /\ Len(uri_calls) = 1
    /\ uri_calls[1].uri = BaseUri \o <<"a", "/", "q">>
    /\ uri_calls[1].result = "R5"
    /\ uri_calls[1].lookups = <<<<"R0", <<"a">>>>, <<"R1", <<"q">>>>>>

(***************************************************************************)
(* Related plans: claims C8 and C9                                         *)
(***************************************************************************)
\* a1__a2__...__an__x for the chain of a plan and an attribute x
Qualified(chain, attribute) ==
    Join(<<"__">>, [i \in 1..Len(chain) |-> chain[i][2]] \o <<attribute>>)

ThroughPrefetch(chain) == \E i \in 1..Len(chain) : chain[i][1] = "sub_prefetch"

RootPlan == (CHOOSE p \in plans : p.chain = <<>>).plan
SelectSet == heap[RootPlan._select]
PrefetchSet == heap[RootPlan._prefetch]

\* C8: a select call on a plan whose derivation chain from the root has a
\* sub_prefetch anywhere in it adds its hint to the prefetch set and leaves
\* the select set alone; a select call on a plan with no sub_prefetch in its
\* chain adds its hint to the select set and leaves the prefetch set alone.
C8_ForcePrefetch ==
    [][(last_op' # <<>> /\ last_op'[1].op = "select") =>
        LET o == last_op'[1]
            q == Qualified(o.chain, o.attribute)
        IN  IF ThroughPrefetch(o.chain)
            THEN /\ PrefetchSet' = PrefetchSet \cup {q}
                 /\ SelectSet' = SelectSet
            ELSE /\ SelectSet' = SelectSet \cup {q}
                 /\ PrefetchSet' = PrefetchSet]_vars

C8_Witness ==
    /\ last_op = Op("select", <<<<"sub_prefetch", <<"a">>>>, <<"sub_select", <<"b">>>>>>,
                    <<"a">>)
    /\ <<"a", "__", "b", "__", "a">> \in PrefetchSet
    /\ SelectSet = {}

\* C9: every plan of a family holds the root's two sets; a select or prefetch
\* on the plan reached through a1, ..., an, for attribute x, adds exactly the
\* hint a1__...__an__x to one of the two sets (prefetch: to the prefetch
\* set); sub_select and sub_prefetch add no hint and give a plan whose
\* prefix is the qualified attribute; the root's prepare returns the
\* queryset with every hint of the two sets applied.
C9_SharedHints ==
    [][/\ \A p \in plans' : /\ p.plan._select = RootPlan'._select
                            /\ p.plan._prefetch = RootPlan'._prefetch
                            /\ p.plan.prefix =
                                 (IF p.chain = <<>> THEN None
                                  ELSE Some(Qualified(SubSeq(p.chain, 1, Len(p.chain) - 1),
                                                      p.chain[Len(p.chain)][2])))
       /\ last_op' # <<>> =>
            LET o == last_op'[1]
                q == Qualified(o.chain, o.attribute)
            IN  CASE o.op = "select" ->
                        \/ SelectSet' = SelectSet \cup {q} /\ PrefetchSet' = PrefetchSet
                        \/ PrefetchSet' = PrefetchSet \cup {q} /\ SelectSet' = SelectSet
                  [] o.op = "prefetch" ->
                        PrefetchSet' = PrefetchSet \cup {q} /\ SelectSet' = SelectSet
                  [] o.op \in {"sub_select", "sub_prefetch"} ->
                        /\ SelectSet' = SelectSet /\ PrefetchSet' = PrefetchSet
                        /\ \E p \in plans' :
                              p.chain = Append(o.chain, <<o.op, o.attribute>>)
                  [] o.op = "prepare" ->
                        /\ final_qs' # <<>>
                        /\ final_qs'[1].select_related = SelectSet
                        /\ final_qs'[1].prefetch_related = PrefetchSet
                        /\ final_qs'[1].rows = BaseQuerySet.rows]_vars

C9_Witness ==
    /\ final_qs # <<>>
    /\ final_qs[1].select_related = {<<"a", "__", "b">>}
    /\ final_qs[1].prefetch_related = {<<"a", "__", "a">>}
    /\ \E p \in plans : p.chain = <<<<"sub_select", <<"a">>>>>>

(***************************************************************************)
(* Query preparation: claim C10                                            *)
(***************************************************************************)
RECURSIVE CountFields(_)
RECURSIVE CountFieldList(_)
\* the field descriptors the prepare of a class reaches
CountFields(cls) == CountFieldList(fields(cls))
CountFieldList(fs) ==
    IF fs = <<>> THEN 0
    ELSE 1 + (IF Head(fs).kind = "AttributeField" THEN 0
              ELSE CountFields(Head(fs).resource_class))
           + CountFieldList(Tail(fs))

Occurs(e, x) == {i \in DOMAIN e : e[i] = x}

\* C10: in every get and every get_child_resource of the collection, the
\* plan is new (two set objects no earlier plan holds, both empty before the
\* first prepare), every prepare of every field descriptor reached from the
\* resource class comes before the one call of the plan's prepare, and a
\* query that is executed is executed after that call, on the queryset it
\* returned: the caller's queryset with every registered hint applied.
C10_PrepareBeforeExecute ==
    LET e == qp.events
        hints == fields_prepare(fields("ItemResource"),
                                [prefix |-> None, _select |-> 1, _prefetch |-> 2,
                                 force_prefetch |-> FALSE], <<{}, {}>>)
    IN  /\ Cardinality(Occurs(e, "Related")) <= 1
        /\ Cardinality(Occurs(e, "finalize")) <= 1
        /\ e # <<>> => e[1] = "Related"
        /\ ~IsNone(qp.related) =>
              /\ Val(qp.related)._select = 2 * qp.n - 1
              /\ Val(qp.related)._prefetch = 2 * qp.n
              /\ Val(qp.related).prefix = None
              /\ Occurs(e, "prepare") = {} =>
                    /\ heap[Val(qp.related)._select] = {}
                    /\ heap[Val(qp.related)._prefetch] = {}
        /\ \A i \in Occurs(e, "prepare"), j \in Occurs(e, "finalize") : i < j
        /\ Occurs(e, "finalize") # {} =>
              /\ qp.todo = <<>>
              /\ Cardinality(Occurs(e, "prepare")) = CountFields("ItemResource")
              /\ heap[Val(qp.related)._select] = hints[1]
              /\ heap[Val(qp.related)._prefetch] = hints[2]
              /\ qp.queryset =
                    Some([rows |-> Val(qp.queryset0).rows,
                          select_related |-> hints[1],
                          prefetch_related |-> hints[2]])
        /\ \A i \in Occurs(e, "execute") :
              /\ \E j \in Occurs(e, "finalize") : j < i
              /\ qp.executed = qp.queryset
              /\ ~IsNone(qp.executed)
        /\ IsNone(qp.executed) = (Occurs(e, "execute") = {})
        /\ (qp.pc = "done" /\ qp.result.exc = NoExc) => Occurs(e, "execute") # {}

C10_Witness ==
    /\ qp.pc = "done"
    /\ qp.caller = "get_child_resource"
    /\ qp.n = 2
    /\ qp.events = <<"Related", "prepare", "prepare", "prepare", "finalize", "execute">>
    /\ ~IsNone(qp.executed)
    /\ Val(qp.executed).prefetch_related = {<<"others">>, <<"others", "__", "owner">>}
    /\ qp.result.rows = <<2>>

(***************************************************************************)
(* Fields and URIs through the dispatcher: claims C13, C16 and C18         *)
(***************************************************************************)
\* C13 (as claimed): a PUT or POST whose body holds a URI that resolves to
\* no resource leaves the stored objects as they were and is answered with
\* a status of the 4xx class, no exception escaping the view.
C13_InvalidReference ==
    [][(IsRequest /\ request'.method \in {"PUT", "POST"}
            /\ \E i \in 1..Len(uri_calls') :
                  uri_calls'[i].exc = NoExc /\ uri_calls'[i].result = NoRes)
        => /\ db' = db
           /\ persist' = <<>>
           /\ response'.exc = NoExc
           /\ response'.status \in 400..499]_vars

\* C16 (as claimed): a GET of a single-entity resource whose URI-reference
\* relation is null raises nothing and writes null under the field's wire
\* property name.
C16_NullOutgoing ==
    (ResolvedOk /\ request.method = "GET" /\ resolved.result = "R3"
        /\ item_fields = <<OtherField>> /\ IsNone(db[1]))
    => /\ response.exc = NoExc
       /\ response.status = 200
       /\ StartsWith(response.content, <<"{", "\"", "other", "\"", ":", "null">>)

\* C18 (as claimed): for the resource r a request path resolved to, the URI
\* build_resource_uri gives for r resolves, through resolve_resource_uri of
\* the same context, to a resource with the resource_path of r.
C18_BuildResolveInverse ==
    ResolvedOk =>
        LET ctx == [base_uri |-> base_uri, root_resource |-> RootNode]
            path == ResourcePathOf(resolved.result, resource_path)
            uri == build_resource_uri(ctx, path)
            back == resolve_resource_uri(ctx, uri.value, resource_path)
        IN  /\ uri.exc = NoExc
            /\ back.exc = NoExc
            /\ back.result # NoRes
            /\ ResourcePathOf(back.result, back.rp) = path

(***************************************************************************)
(* The collection's child lookup: claim C15                                *)
(***************************************************************************)
\* C15 (as claimed): a finished get_child_resource whose fragment names no
\* stored member (no such row, or not parseable as the key type) has raised
\* nothing and returned no resource; one whose fragment names a member has
\* returned that member, wrapped with the path collection path + '/' + key.
C15_ChildLookup ==
    (qp.pc = "done" /\ qp.caller = "get_child_resource")
    => LET v == PyInt(qp.path_fragment)
       IN  IF ~IsNone(v) /\ Val(v) \in DOMAIN db
           THEN /\ qp.result = [exc |-> NoExc, rows |-> <<Val(v)>>]
                /\ to_resource(Some(<<"q">>), "ItemResource", <<"Item", Val(v)>>)
                     = Some(<<"q", "/">> \o StrInt(Val(v)))
           ELSE qp.result = [exc |-> NoExc, rows |-> <<>>]

(***************************************************************************)
(* fields.py: SubModelResourceField('other', OtherResource) and            *)
(* RelatedManagerField('others', OtherResource) on one stored target       *)
(* object, each with published_property set to its attribute's name, and   *)
(* OtherResource.fields = [].  A record t is the world of one put:         *)
(*   t.rows       the stored Other rows (their keys)                       *)
(*   t.others     the rows target.others.all() yields                      *)
(*   t.other      the stored relation target.other: None or a key          *)
(*   t.next_pk    the store's next key for an Other row                    *)
(*   t.has_remove whether the manager has remove (the FK is nullable)      *)
(*   t.fields     the fields of the target's resource class                *)
(*   t.mem_other  target.other of the object in memory: None or the key of *)
(*                the object assigned, 0 while that object is unsaved      *)
(*   t.log        the calls of the put: [op, attr, pks]                    *)
(*   t.body, t.exc  the wire body of the put, and the exception it raised  *)
(*   t.pc         "idle", or "responded" once a put has returned           *)
(*   t.again      whether the put that returned repeated the one before    *)
(***************************************************************************)
MaxEntries == 2     \* entries in the list a related collection is put
MaxRows == 5        \* the store's next key at which no further put is made

Ids == {<<"1">>, <<"2">>, <<"x">>}

\* the wire entries of a related collection, with and without '_id'
ModelDicts == {<<>>} \cup {("_id" :> id) : id \in Ids}

ModelDictLists == UNION {[1..n -> ModelDicts] : n \in 0..MaxEntries}

SourceDicts ==
    {sub @@ rel : sub \in {<<>>, (<<"other">> :> <<>>)},
                  rel \in {<<>>} \cup {(<<"others">> :> l) : l \in ModelDictLists}}

TargetFieldLists ==
    LET sub == SubModelResourceField("other", "OtherResource", FALSE)
        rel == RelatedManagerField("others", "OtherResource")
    IN  {<<sub>>, <<rel>>, <<sub, rel>>, <<rel, sub>>}

Event(op, f, pks) == [op |-> op, attr |-> f.attribute, pks |-> pks]

\* create_resource(): cls(cls.model_class()), an object with no key yet
create_resource(f, t) == [t EXCEPT !.log = Append(@, Event("create", f, {}))]

\* ModelResource.put of an OtherResource (no fields): self.model.save(),
\* which inserts an unsaved object under the next key
other_put(f, pk, t) ==
    IF pk = 0
    THEN [t |-> [t EXCEPT !.rows = @ \cup {t.next_pk},
                          !.next_pk = @ + 1,
                          !.log = Append(@, Event("save", f, {t.next_pk}))],
          pk |-> t.next_pk]
    ELSE [t |-> [t EXCEPT !.rows = @ \cup {pk},
                          !.log = Append(@, Event("save", f, {pk}))],
          pk |-> pk]

\* SubModelResourceField.handle_incoming creating a new object every time
sub_handle_incoming_replace(f, source_dict, t) ==
    With([create_resource(f, t) EXCEPT
              !.mem_other = Some(0),
              !.log = Append(@, Event("setattr", f, {}))], LAMBDA t1 :
        IF f.attribute \notin DOMAIN source_dict
        THEN [exc |-> "KeyError", t |-> t1]
        ELSE With(other_put(f, Val(t1.mem_other), t1), LAMBDA put :
             [exc |-> NoExc, t |-> [put.t EXCEPT !.mem_other = Some(put.pk)]]))

\* SubModelResourceField.handle_incoming
sub_handle_incoming(f, source_dict, t) ==
    With(IF IsNone(t.mem_other)
         THEN [create_resource(f, t) EXCEPT
                  !.mem_other = Some(0),
                  !.log = Append(@, Event("setattr", f, {}))]
         ELSE t, LAMBDA t1 :
        IF f.attribute \notin DOMAIN source_dict
        THEN [exc |-> "KeyError", t |-> t1]
        ELSE With(other_put(f, Val(t1.mem_other), t1), LAMBDA put :
             [exc |-> NoExc, t |-> [put.t EXCEPT !.mem_other = Some(put.pk)]]))

RECURSIVE related_loop(_, _, _, _, _, _)
\* for model_dict in source_dict[property]: [exc, t, new_models, request_keys]
related_loop(f, model_dicts, db_keys, t, new_models, request_keys) ==
    IF model_dicts = <<>>
    THEN [exc |-> NoExc, t |-> t, new_models |-> new_models,
          request_keys |-> request_keys]
    ELSE IF "_id" \in DOMAIN Head(model_dicts)
    THEN With(get_from_queryset(f.resource_class, [rows |-> t.others],
                                Head(model_dicts)["_id"]), LAMBDA got :
         IF got.exc # NoExc
         THEN [exc |-> got.exc, t |-> t, new_models |-> new_models,
               request_keys |-> request_keys]
         ELSE With(key(<<"Other", got.rows[1]>>), LAMBDA k :
              related_loop(f, Tail(model_dicts), db_keys,
                           IF k \in db_keys THEN other_put(f, got.rows[1], t).t
                           ELSE t,
                           new_models, request_keys \cup {k})))
    ELSE With(other_put(f, 0, create_resource(f, t)), LAMBDA put :
         related_loop(f, Tail(model_dicts), db_keys, put.t,
                      Append(new_models, put.pk), request_keys))

\* manager.add(*new_models)
manager_add(f, new_models, t) ==
    [t EXCEPT !.others = @ \cup {new_models[i] : i \in 1..Len(new_models)},
              !.log = Append(@, Event("add", f,
                                      {new_models[i] : i \in 1..Len(new_models)}))]

\* manager.remove(*models_to_remove), or model.delete() of each
manager_remove(f, models_to_remove, t) ==
    IF t.has_remove
    THEN [t EXCEPT !.others = @ \ models_to_remove,
                   !.log = Append(@, Event("remove", f, models_to_remove))]
    ELSE [t EXCEPT !.others = @ \ models_to_remove,
                   !.rows = @ \ models_to_remove,
                   !.log = Append(@, Event("delete", f, models_to_remove))]

\* RelatedManagerField.handle_incoming removing every current member
related_handle_incoming_all(f, source_dict, t) ==
    With({key(<<"Other", pk>>) : pk \in t.others}, LAMBDA db_keys :
        IF f.attribute \notin DOMAIN source_dict
        THEN [exc |-> "KeyError", t |-> t]
        ELSE With(related_loop(f, source_dict[f.attribute], db_keys, t, <<>>, {}),
                  LAMBDA loop :
             IF loop.exc # NoExc THEN [exc |-> loop.exc, t |-> loop.t]
             ELSE [exc |-> NoExc,
                   t |-> manager_remove(
                             f,
                             {pk \in t.others : key(<<"Other", pk>>) \in db_keys},
                             manager_add(f, loop.new_models, loop.t))]))

\* RelatedManagerField.handle_incoming
related_handle_incoming(f, source_dict, t) ==
    With({key(<<"Other", pk>>) : pk \in t.others}, LAMBDA db_keys :
        IF f.attribute \notin DOMAIN source_dict
        THEN [exc |-> "KeyError", t |-> t]
        ELSE With(related_loop(f, source_dict[f.attribute], db_keys, t, <<>>, {}),
                  LAMBDA loop :
             IF loop.exc # NoExc THEN [exc |-> loop.exc, t |-> loop.t]
             ELSE [exc |-> NoExc,
                   t |-> manager_remove(
                             f,
                             {pk \in t.others :
                                 key(<<"Other", pk>>)
                                     \in db_keys \ loop.request_keys},
                             manager_add(f, loop.new_models, loop.t))]))

RECURSIVE target_incoming(_, _, _)
\* for field in self.fields: field.handle_incoming(ctx, source_dict, self.model)
target_incoming(fs, source_dict, t) ==
    IF fs = <<>> THEN [exc |-> NoExc, t |-> t]
    ELSE With(IF Head(fs).kind = "SubModelResourceField"
              THEN sub_handle_incoming(Head(fs), source_dict, t)
              ELSE related_handle_incoming(Head(fs), source_dict, t), LAMBDA one :
         IF one.exc # NoExc THEN one
         ELSE target_incoming(Tail(fs), source_dict, one.t))

\* ModelResource.put(ctx, source_dict) of the target's resource: the target
\* is loaded from the store, and its save stores the relation assigned
target_put(source_dict, t) ==
    With(target_incoming(t.fields, source_dict,
                         [t EXCEPT !.mem_other = t.other, !.log = <<>>,
                                   !.body = Some(source_dict)]), LAMBDA inc :
        IF inc.exc # NoExc THEN [inc.t EXCEPT !.exc = inc.exc]
        ELSE [inc.t EXCEPT !.other = inc.t.mem_other,
                           !.exc = NoExc,
                           !.log = Append(@, [op |-> "save", attr |-> <<>>,
                                              pks |-> {}])])

\* a stored target: rows 1 and 2 may be members, row 3 may be its `other`
InitFields ==
    /\ DispatchStill
    /\ plans = <<>>
    /\ heap = <<>>
    /\ last_op = <<>>
    /\ final_qs = <<>>
    /\ qp = <<>>
    /\ cq = <<>>
    /\ \E fs \in TargetFieldLists, has_remove \in BOOLEAN,
          others \in SUBSET {1, 2}, other \in {None, Some(3)} :
            tgt = [fields |-> fs, has_remove |-> has_remove, rows |-> {1, 2, 3},
                   others |-> others, other |-> other, next_pk |-> 4,
                   mem_other |-> other, log |-> <<>>, body |-> None,
                   exc |-> NoExc, pc |-> "idle", again |-> FALSE]

\* a PUT of the target's resource
Put ==
    /\ tgt.pc = "idle"
    /\ tgt.next_pk <= MaxRows
    /\ \E source_dict \in SourceDicts :
        tgt' = [target_put(source_dict, tgt) EXCEPT !.pc = "responded"]
    /\ UNCHANGED <<dispatchVars, relatedVars, qp, cq>>

\* the client issues the PUT it has just been answered once more
PutAgain ==
    /\ tgt.pc = "responded"
    /\ ~tgt.again
    /\ tgt.next_pk <= MaxRows
    /\ tgt' = [target_put(Val(tgt.body), tgt) EXCEPT !.again = TRUE]
    /\ UNCHANGED <<dispatchVars, relatedVars, qp, cq>>

\* the exchange is over: the target object in memory and the body are gone
PutDone ==
    /\ tgt.pc = "responded"
    /\ tgt' = [tgt EXCEPT !.pc = "idle", !.again = FALSE, !.mem_other = tgt.other,
                          !.log = <<>>, !.body = None, !.exc = NoExc]
    /\ UNCHANGED <<dispatchVars, relatedVars, qp, cq>>

NextFields == Put \/ PutAgain \/ PutDone

SpecFields == InitFields /\ [][NextFields]_vars

(***************************************************************************)
(* The embedded and the collection field of a put: claims C11, C12, C14    *)
(***************************************************************************)
\* the put of this step called handle_incoming of the field named attr:
\* the field is the first of the list, or the one before it raised nothing
Handled(attr) ==
    /\ tgt'.pc = "responded"
    /\ \E i \in 1..Len(tgt.fields) : tgt.fields[i].attribute = attr
    /\ \/ tgt.fields[1].attribute = attr
       \/ IF attr = <<"others">>
          THEN <<"other">> \in DOMAIN Val(tgt'.body)
          ELSE \E i \in 1..Len(tgt'.log) :
                  tgt'.log[i].op = "add" /\ tgt'.log[i].attr = <<"others">>

\* C11: when a put hands the collection field a list whose entries with '_id'
\* all name current members (C the members before, K those named, n the
\* entries without '_id'), the members afterwards are K and n rows that
\* did not exist before; each member of K was saved and is still a stored
\* member; each member of C \ K is no member any more, still stored when
\* the manager has remove and deleted from the store when it has not.
C11_Reconciled ==
    [][LET C == tgt.others
           body == Val(tgt'.body)
           entries == body[<<"others">>]
           ids == {i \in 1..Len(entries) : "_id" \in DOMAIN entries[i]}
           named == {PyInt(entries[i]["_id"]) : i \in ids}
           K == {pk \in C : Some(pk) \in named}
           New == tgt'.others \ C
       IN  (/\ Handled(<<"others">>)
            /\ <<"others">> \in DOMAIN body
            /\ \A v \in named : ~IsNone(v) /\ Val(v) \in C)
           => /\ tgt'.others \cap C = K
              /\ Cardinality(New) = Len(entries) - Cardinality(ids)
              /\ New \cap tgt.rows = {}
              /\ New \cup K \subseteq tgt'.rows
              /\ \A k \in K : \E i \in 1..Len(tgt'.log) :
                    tgt'.log[i] = [op |-> "save", attr |-> <<"others">>,
                                   pks |-> {k}]
              /\ \A r \in C \ K :
                    IF tgt.has_remove
                    THEN /\ r \in tgt'.rows
                         /\ \E i \in 1..Len(tgt'.log) :
                               tgt'.log[i].op = "remove" /\ r \in tgt'.log[i].pks
                    ELSE r \notin tgt'.rows]_vars

\* a put that kept member 1 or 2, added a new member and removed another
C11_Witness ==
    /\ tgt.exc = NoExc
    /\ \E i, j, k \in 1..Len(tgt.log) :
        /\ tgt.log[i].attr = <<"others">> /\ tgt.log[i].op = "save"
        /\ tgt.log[i].pks \subseteq {1, 2} /\ tgt.log[i].pks \subseteq tgt.others
        /\ tgt.log[j].op = "add" /\ tgt.log[j].pks # {}
        /\ tgt.log[k].op \in {"remove", "delete"} /\ tgt.log[k].pks # {}

\* C12: a put that reaches the embedded field leaves a set relation on the
\* object it had, creating and assigning nothing and saving that object;
\* with the relation unset it creates one object, assigns it, and only
\* then saves it, under a key no row had before.
C12_NoReplace ==
    [][LET log == tgt'.log
           at(op) == {i \in 1..Len(log) :
                         log[i].op = op /\ log[i].attr = <<"other">>}
           present == <<"other">> \in DOMAIN Val(tgt'.body)
       IN  Handled(<<"other">>)
           => IF ~IsNone(tgt.other)
              THEN /\ at("create") = {} /\ at("setattr") = {}
                   /\ tgt'.mem_other = tgt.other
                   /\ tgt'.other = tgt.other
                   /\ present => \E i \in at("save") : log[i].pks = {Val(tgt.other)}
              ELSE /\ Cardinality(at("create")) = 1
                   /\ Cardinality(at("setattr")) = 1
                   /\ \A c \in at("create"), a \in at("setattr") : c < a
                   /\ \A a \in at("setattr"), i \in at("save") :
                         a < i /\ log[i].pks \cap tgt.rows = {}
                   /\ present => \E i \in at("save") :
                                    tgt'.mem_other = Some(CHOOSE pk \in log[i].pks : TRUE)
                   /\ tgt'.exc = NoExc => ~IsNone(tgt'.other)]_vars

\* a put that found the relation set and saved the related object
C12_Witness ==
    /\ tgt.exc = NoExc
    /\ tgt.other = Some(3)
    /\ \E i \in 1..Len(tgt.log) :
          tgt.log[i] = [op |-> "save", attr |-> <<"other">>, pks |-> {3}]

\* C14 (as claimed): a put that repeats the put before it, which raised
\* nothing, raises nothing and leaves the stored rows, the members and the
\* relation as that put left them.
C14_PutIdempotent ==
    [][(tgt.exc = NoExc /\ tgt.pc = "responded" /\ tgt'.pc = "responded")
       => /\ tgt'.exc = NoExc
          /\ tgt'.rows = tgt.rows
          /\ tgt'.others = tgt.others
          /\ tgt'.other = tgt.other]_vars

(***************************************************************************)
(* views.py: two calls of view in flight at once on the tree api_view was  *)
(* given, _resolve_resource statement by statement.  cq[r] holds the       *)
(* position and the locals of request r: its own ctx, resource,            *)
(* cur_resource_path and the path fragments left, with the values of       *)
(* resource.resource_path it has read and the assignments it has made.     *)
(* resource_path holds the attribute of the registered resources, which    *)
(* every request reaches through the one root_resource of the closure.     *)
(***************************************************************************)
Requests == {1, 2}

ConcPaths == {<<"a">>, <<"a", "/", "b">>, <<"a", "/", "a">>,
              <<"q", "/", "a">>, <<"b">>}

\* the resource_path attributes when api_view has returned
Startup == api_view([n \in Nodes |-> None])

ConcIdle ==
    [pc |-> "idle", ctx |-> <<>>, path_fragments |-> <<>>, resource |-> NoRes,
     cur_resource_path |-> <<>>, reads |-> <<>>, writes |-> {},
     result |-> NoRes, exc |-> NoExc]

InitConc ==
    /\ DispatchStill
    /\ plans = <<>>
    /\ heap = <<>>
    /\ last_op = <<>>
    /\ final_qs = <<>>
    /\ qp = <<>>
    /\ tgt = <<>>
    /\ cq = [r \in Requests |-> ConcIdle]

concStill ==
    <<root_cls, item_parent_path, item_fields, other_fields, db, next_pk,
      request, base_uri, resolved, lookups, uri_calls, calls, persist, created,
      pc, response, relatedVars, qp, tgt>>

\* view builds the request's APIContext and enters _resolve_resource
Enter(r) ==
    /\ cq[r].pc = "idle"
    /\ \E path \in ConcPaths :
        cq' = [cq EXCEPT ![r] =
                  [ConcIdle EXCEPT
                      !.pc = "for",
                      !.ctx = <<APIContext(Mount, RootNode)>>,
                      !.path_fragments = _split_resource_path(path),
                      !.resource = RootNode]]
    /\ UNCHANGED <<resource_path, concStill>>

\* resource = resource.get_child_resource(path_fragment); if not resource:
\* return None; cur_resource_path = cur_resource_path + '/' + path_fragment
Lookup(r) ==
    /\ cq[r].pc = "for"
    /\ cq[r].path_fragments # <<>>
    /\ \E got \in {get_child_resource(cq[r].resource, Head(cq[r].path_fragments))} :
        cq' = [cq EXCEPT ![r] =
                  IF got.exc # NoExc
                  THEN [@ EXCEPT !.pc = "return", !.result = NoRes, !.exc = got.exc]
                  ELSE IF got.value = NoRes
                  THEN [@ EXCEPT !.pc = "return", !.result = NoRes]
                  ELSE [@ EXCEPT !.pc = "test",
                                 !.resource = got.value,
                                 !.cur_resource_path =
                                     @ \o <<"/">> \o Head(cq[r].path_fragments),
                                 !.path_fragments = Tail(@)]]
    /\ UNCHANGED <<resource_path, concStill>>

\* if resource.resource_path is None:
Test(r) ==
    /\ cq[r].pc = "test"
    /\ \E v \in {ResourcePathOf(cq[r].resource, resource_path)} :
        cq' = [cq EXCEPT ![r] =
                  [@ EXCEPT !.pc = IF IsNone(v) THEN "assign" ELSE "for",
                            !.reads = Append(@, <<cq[r].resource, v>>)]]
    /\ UNCHANGED <<resource_path, concStill>>

\* resource.resource_path = cur_resource_path
Assign(r) ==
    /\ cq[r].pc = "assign"
    /\ resource_path' = [resource_path EXCEPT
                            ![cq[r].resource] = Some(cq[r].cur_resource_path)]
    /\ cq' = [cq EXCEPT ![r] =
                 [@ EXCEPT !.pc = "for",
                           !.writes = @ \cup {<<cq[r].resource,
                                                Some(cq[r].cur_resource_path)>>}]]
    /\ UNCHANGED concStill

\* the for loop is exhausted: return resource
LoopEnd(r) ==
    /\ cq[r].pc = "for"
    /\ cq[r].path_fragments = <<>>
    /\ cq' = [cq EXCEPT ![r] = [@ EXCEPT !.pc = "return",
                                         !.result = cq[r].resource]]
    /\ UNCHANGED <<resource_path, concStill>>

\* the call of view ends; its context and locals are gone
Leave(r) ==
    /\ cq[r].pc = "return"
    /\ cq' = [cq EXCEPT ![r] = ConcIdle]
    /\ UNCHANGED <<resource_path, concStill>>

NextConc ==
    \E r \in Requests :
        Enter(r) \/ Lookup(r) \/ Test(r) \/ Assign(r) \/ LoopEnd(r) \/ Leave(r)

SpecConc == InitConc /\ [][NextConc]_vars

(***************************************************************************)
(* Requests in flight together: claim C17                                  *)
(***************************************************************************)
\* C17 (as claimed): in every interleaving of two requests no step changes
\* the resource_path of a registered resource, and every value a request
\* reads from a resource's resource_path is the one it had at startup or
\* one the same request assigned.
C17_Isolated ==
    [][/\ resource_path' = resource_path
       /\ \A r \in Requests : \A i \in 1..Len(cq'[r].reads) :
             \/ cq'[r].reads[i][2] = ResourcePathOf(cq'[r].reads[i][1], Startup)
             \/ cq'[r].reads[i] \in cq'[r].writes]_vars

====
